---- MODULE Spec2Model ----
(***************************************************************************)
(* DNSChecker (src/src/components/DNSChecker.ts): the domain analysis      *)
(* engine.  analyzeDomain starts nine evaluators, each an async method     *)
(* that awaits its own resolver lookups, joins them with Promise.all and   *)
(* aggregates their scores into a report.                                  *)
(*                                                                         *)
(* Strings the code takes apart (names, record data) are sequences of      *)
(* one-character strings; messages built from templates are tuples of      *)
(* their parts.  Scores are exact rationals held as numerators over        *)
(* ScoreDen, because the security score is k/3*100.                        *)
(***************************************************************************)
EXTENDS Integers, Sequences, FiniteSets, TLC

VARIABLES
  pc,      \* where the caller stands: "idle", "awaiting", "returned", "rejected",
           \* or "unit" when a single method was called on its own
  domain,  \* cleanDomain, the argument every evaluator is called with
  ev,      \* each evaluator's activation: its await point and its locals
  report,  \* the DNSReport analyzeDomain returned, None before
  heard,   \* the lookups that settled, with their outcomes, in order; kept
           \* while a single evaluator runs on its own
  zone,    \* the resolver: AnyZone when each lookup may settle in any way, or
           \* the table that fixes the outcome of every lookup
  prior    \* what an earlier call of analyzeDomain left with its caller, None
           \* while there was none

vars == <<pc, domain, ev, report, heard, zone, prior>>

(* ------------------------------ bounds -------------------------------- *)
\* longest Answer list the resolver returns when one evaluator runs alone
MaxAnswers == 3
\* largest elapsed time Date.now() measures round a probe, in milliseconds
MaxLatency == 1
\* longest Answer list of a lookup made inside a loop (a PTR lookup)
MaxInnerAnswers == 1

(* ----------------------------- constants ------------------------------ *)
ScoreDen == 3
TypeA == 1
TypeNS == 2
TypeCNAME == 5
TypePTR == 12
TypeMX == 15
TypeAAAA == 28

Dimensions ==
  {"nameservers", "soa", "mx", "a", "aaaa", "cname", "ptr", "propagation", "security"}

None == [kind |-> "none"]

DigitOf ==
  [c \in {"0", "1", "2", "3", "4", "5", "6", "7", "8", "9"} |->
     CASE c = "0" -> 0 [] c = "1" -> 1 [] c = "2" -> 2 [] c = "3" -> 3 [] c = "4" -> 4
       [] c = "5" -> 5 [] c = "6" -> 6 [] c = "7" -> 7 [] c = "8" -> 8 [] c = "9" -> 9]

(* ------------------------------ strings ------------------------------- *)
RECURSIVE Join(_, _)
\* Array.prototype.join
Join(parts, sep) ==
  IF Len(parts) = 0 THEN <<>>
  ELSE IF Len(parts) = 1 THEN parts[1]
  ELSE parts[1] \o sep \o Join(Tail(parts), sep)

RECURSIVE SplitAcc(_, _, _)
SplitAcc(s, sep, cur) ==
  IF Len(s) = 0 THEN <<cur>>
  ELSE IF s[1] = sep THEN <<cur>> \o SplitAcc(Tail(s), sep, <<>>)
  ELSE SplitAcc(Tail(s), sep, Append(cur, s[1]))

\* String.prototype.split on a one-character separator
Split(s, sep) == SplitAcc(s, sep, <<>>)

\* Array.prototype.reverse
Reverse(parts) == [i \in 1..Len(parts) |-> parts[Len(parts) + 1 - i]]

\* s.replace(/\.$/, '')
StripTrailingDot(s) ==
  IF Len(s) > 0 /\ s[Len(s)] = "." THEN SubSeq(s, 1, Len(s) - 1) ELSE s

HasPrefix(s, p) == Len(s) >= Len(p) /\ SubSeq(s, 1, Len(p)) = p

HttpScheme == <<"h", "t", "t", "p", ":", "/", "/">>
HttpsScheme == <<"h", "t", "t", "p", "s", ":", "/", "/">>

\* s.replace(/^https?:\/\//, '')
StripScheme(s) ==
  IF HasPrefix(s, HttpsScheme) THEN SubSeq(s, Len(HttpsScheme) + 1, Len(s))
  ELSE IF HasPrefix(s, HttpScheme) THEN SubSeq(s, Len(HttpScheme) + 1, Len(s))
  ELSE s

\* s.replace(/\/$/, '')
StripTrailingSlash(s) ==
  IF Len(s) > 0 /\ s[Len(s)] = "/" THEN SubSeq(s, 1, Len(s) - 1) ELSE s

\* cleanDomain folding the letters the arguments use to lower case as well
cleanDomainLowerCase(input) ==
  LET s == StripTrailingSlash(StripScheme(input))
  IN [i \in 1..Len(s) |-> CASE s[i] = "E" -> "e" [] s[i] = "H" -> "h"
                             [] s[i] = "T" -> "t" [] s[i] = "P" -> "p"
                             [] OTHER -> s[i]]

cleanDomain(input) == StripTrailingSlash(StripScheme(input))

WwwPrefix == <<"w", "w", "w", ".">>
InAddrArpa == <<".", "i", "n", "-", "a", "d", "d", "r", ".", "a", "r", "p", "a">>

\* the address reversed character by character instead of octet by octet
reverseDomainByCharacter(ip) == Reverse(ip) \o InAddrArpa

\* ip.split('.').reverse().join('.') + '.in-addr.arpa'
reverseDomain(ip) == Join(Reverse(Split(ip, ".")), <<".">>) \o InAddrArpa

RECURSIVE DigitsValue(_, _)
\* value of the longest run of decimal digits at the head of s, after acc
DigitsValue(s, acc) ==
  IF Len(s) > 0 /\ s[1] \in DOMAIN DigitOf
  THEN DigitsValue(Tail(s), 10 * acc + DigitOf[s[1]])
  ELSE acc

\* parseInt(s): optional sign, then digits up to the first other character;
\* NaN when there is no digit (also for undefined, passed as the empty string)
parseInt(s) ==
  LET neg == Len(s) > 0 /\ s[1] = "-"
      body == IF Len(s) > 0 /\ s[1] \in {"-", "+"} THEN Tail(s) ELSE s
  IN IF Len(body) > 0 /\ body[1] \in DOMAIN DigitOf
     THEN [nan |-> FALSE, val |-> IF neg THEN 0 - DigitsValue(body, 0) ELSE DigitsValue(body, 0)]
     ELSE [nan |-> TRUE, val |-> 0]

\* parseInt(x) || 0 : NaN and 0 are falsy
OrZero(n) == IF n.nan THEN 0 ELSE n.val

(* ------------------------------ resolver ------------------------------ *)
Query(name, type) == [name |-> name, type |-> type]

\* a record of an Answer list; its TTL member is a set of at most one number,
\* empty when the record has none (undefined in the code)
Rec(name, type, data) == [name |-> name, type |-> type, data |-> data, TTL |-> {300}]

\* a record that has no TTL member
RecNoTTL(name, type, data) == [name |-> name, type |-> type, data |-> data, TTL |-> {}]

\* the records a response to a query of each type may carry: records of the
\* type asked for, and one of another type (a CNAME on the way, or an A)
Universe(q) ==
  CASE q.type = "NS" ->
         { Rec(q.name, TypeNS, <<"n", "1", ".">>),
           Rec(q.name, TypeNS, <<"n", "2">>),
           Rec(q.name, TypeCNAME, <<"c", ".">>) }
    [] q.type = "SOA" ->   \* 6 is the type code of SOA; checkSOA never reads it
         { Rec(q.name, 6, <<"n", ".", " ", "a", ".", "b", ".", " ", "5", " ",
                                  "3", "6", "0", "0", " ", "6", "0", " ",
                                  "6", "0", "4", "8", "0", "0", " ", "6", "0">>),
           Rec(q.name, 6, <<"n", " ", "a", " ", "5", " ", "6", "0", " ", "x">>),
           Rec(q.name, 6, <<"n", " ", "a", " ", "5", " ", "-", "1", " ", "6", "0", " ",
                            "6", "0", "4", "8", "0", "0", " ", "6", "0">>),
           Rec(q.name, 6, <<"n", " ", "a", " ", "5", " ", "3", "6", "0", "0", " ",
                            "6", "0", " ", "9", " ", "6", "0">>),
           Rec(q.name, TypeCNAME, <<"c", ".">>) }
    [] q.type = "MX" ->
         { Rec(q.name, TypeMX, <<"1", "0", " ", "m", ".">>),
           Rec(q.name, TypeMX, <<"m">>),
           Rec(q.name, TypeMX, <<"-", "5", " ", "m", ".">>),
           Rec(q.name, TypeCNAME, <<"c", ".">>) }
    [] q.type = "A" ->
         { Rec(q.name, TypeA, <<"1", ".", "2", ".", "3", ".", "4">>),
           RecNoTTL(q.name, TypeA, <<"1", "0", ".", "0", ".", "0", ".", "1">>),
           Rec(q.name, TypeCNAME, <<"c", ".">>) }
    [] q.type = "AAAA" ->
         { Rec(q.name, TypeAAAA, <<":", ":", "1">>),
           Rec(q.name, TypeCNAME, <<"c", ".">>) }
    [] q.type = "CNAME" ->
         { Rec(q.name, TypeCNAME, <<"c", ".">>),
           Rec(q.name, TypeA, <<"1", ".", "2", ".", "3", ".", "4">>) }
    [] q.type = "PTR" ->
         { Rec(q.name, TypePTR, <<"h", ".">>),
           Rec(q.name, TypeCNAME, <<"c", ".">>) }

SeqsUpTo(S, n) == UNION { [1..k -> S] : k \in 0..n }

Error == [kind |-> "error", hasAnswer |-> FALSE, Answer |-> <<>>]
NoAnswer == [kind |-> "ok", hasAnswer |-> FALSE, Answer |-> <<>>]
Ok(answer) == [kind |-> "ok", hasAnswer |-> TRUE, Answer |-> answer]

\* queryDNS settles: it throws (fetch rejected, or response not ok) or returns
\* the parsed body, whose Answer member is absent or a list of at most n records
Outcomes(q, n) ==
  {Error, NoAnswer} \cup { Ok(a) : a \in SeqsUpTo(Universe(q), n) }

\* response.Answer, the empty list standing for an absent member: every loop
\* over it is guarded by `if (response.Answer)`
AnswerOf(o) == IF o.hasAnswer THEN o.Answer ELSE <<>>

(* ------------------------- evaluators: shared -------------------------- *)
NoQuery == [name |-> <<>>, type |-> "none"]

\* an evaluator that has not been called
EvIdle ==
  [st |-> "idle", q |-> NoQuery, todo |-> <<>>, acc |-> <<>>, cur |-> <<>>,
   result |-> None, log |-> <<>>]

Return(v) == [kind |-> "return", value |-> v]
Throw == [kind |-> "throw", value |-> None]

\* the evaluator suspends at `await this.queryDNS(name, type)`
Awaiting(s, q) == [s EXCEPT !.st = "await", !.q = q, !.log = Append(@, q)]

\* the evaluator's promise settles: fulfilled with a result, or rejected
Settle(s, c) ==
  IF c.kind = "throw"
  THEN [s EXCEPT !.st = "threw", !.q = NoQuery, !.todo = <<>>, !.cur = <<>>]
  ELSE [s EXCEPT !.st = "done", !.q = NoQuery, !.todo = <<>>, !.cur = <<>>,
                 !.result = c.value]

\* try { body } catch { handler }
TryCatch(body, handler) == IF body.kind = "throw" THEN handler ELSE body

RECURSIVE SkipTo(_, _)
\* the for-loop passes over the records whose type is not t without suspending
SkipTo(records, t) ==
  IF records = <<>> THEN <<>>
  ELSE IF records[1].type = t THEN records
  ELSE SkipTo(Tail(records), t)

RECURSIVE OfType(_, _)
OfType(records, t) ==
  IF records = <<>> THEN <<>>
  ELSE IF records[1].type = t THEN <<records[1]>> \o OfType(Tail(records), t)
  ELSE OfType(Tail(records), t)

RECURSIVE CountPass(_)
\* nameservers.filter(ns => ns.status === 'pass').length
CountPass(entries) ==
  IF entries = <<>> THEN 0
  ELSE (IF entries[1].status = "pass" THEN 1 ELSE 0) + CountPass(Tail(entries))

Points(n) == n * ScoreDen

(* ----------------------------- nameservers ----------------------------- *)
\* checkNameserversResult without Math.min(100, ...)
checkNameserversResultUnclamped(nameservers) ==
  LET passCount == CountPass(nameservers)
  IN [status |-> IF passCount >= 2 THEN "pass"
                 ELSE IF passCount >= 1 THEN "warning" ELSE "fail",
      message |-> <<"Found ", ToString(Len(nameservers)), " nameservers, ",
                    ToString(passCount), " responding">>,
      score |-> (passCount * Points(100)) \div 2,
      nameservers |-> nameservers,
      recommendations |->
        IF passCount < 2
        THEN <<"Consider having at least 2 working nameservers for redundancy">>
        ELSE <<>>]

\* checkNameserversResult asking for more than two passing probes (> for >=)
checkNameserversResultStrict(nameservers) ==
  LET passCount == CountPass(nameservers)
      raw == (passCount * Points(100)) \div 2
  IN [status |-> IF passCount > 2 THEN "pass"
                 ELSE IF passCount >= 1 THEN "warning" ELSE "fail",
      message |-> <<"Found ", ToString(Len(nameservers)), " nameservers, ",
                    ToString(passCount), " responding">>,
      score |-> IF raw < Points(100) THEN raw ELSE Points(100),
      nameservers |-> nameservers,
      recommendations |->
        IF passCount <= 2
        THEN <<"Consider having at least 2 working nameservers for redundancy">>
        ELSE <<>>]

\* lines 105-115
checkNameserversResult(nameservers) ==
  LET passCount == CountPass(nameservers)
      raw == (passCount * Points(100)) \div 2
  IN [status |-> IF passCount >= 2 THEN "pass"
                 ELSE IF passCount >= 1 THEN "warning" ELSE "fail",
      message |-> <<"Found ", ToString(Len(nameservers)), " nameservers, ",
                    ToString(passCount), " responding">>,
      score |-> IF raw < Points(100) THEN raw ELSE Points(100),
      nameservers |-> nameservers,
      recommendations |->
        IF passCount < 2
        THEN <<"Consider having at least 2 working nameservers for redundancy">>
        ELSE <<>>]

\* lines 116-124
checkNameserversCatch ==
  Return([status |-> "fail",
          message |-> <<"Failed to check nameservers">>,
          score |-> Points(0),
          nameservers |-> <<>>,
          recommendations |-> <<"Ensure your domain has valid nameservers configured">>])

\* lines 81-103: the loop runs on to the next NS record and suspends on its
\* probe, or falls out of the loop and returns
checkNameserversLoop(s, dom) ==
  LET rest == SkipTo(s.todo, TypeNS)
  IN IF rest = <<>>
     THEN Settle(s, Return(checkNameserversResult(s.acc)))
     ELSE Awaiting([s EXCEPT !.todo = Tail(rest),
                             !.cur = StripTrailingDot(rest[1].data)],
                   Query(dom, "A"))

\* the NS query's failure taken for an answer without records
checkNameserversOnNSIgnoresError(s, dom, o) ==
  checkNameserversLoop([s EXCEPT !.q = NoQuery, !.todo = AnswerOf(o)], dom)

\* the list of probe entries kept from one call to the next instead of being
\* a local of each call
checkNameserversOnNSKeepsEntries(s, dom, o) ==
  IF o.kind = "error"
  THEN Settle(s, TryCatch(Throw, checkNameserversCatch))
  ELSE checkNameserversLoop(
         [s EXCEPT !.q = NoQuery, !.todo = AnswerOf(o),
                   !.acc = IF prior = None THEN <<>>
                           ELSE prior.checks.nameservers.nameservers],
         dom)

\* line 77: the NS query settles
checkNameserversOnNS(s, dom, o) ==
  IF o.kind = "error"
  THEN Settle(s, TryCatch(Throw, checkNameserversCatch))
  ELSE checkNameserversLoop([s EXCEPT !.q = NoQuery, !.todo = AnswerOf(o)], dom)

\* lines 84-100: the entry pushed for the nameserver whose probe settled
probeEntry(ns, o, responseTime) ==
  IF o.kind = "error"
  THEN [nameserver |-> ns, status |-> "fail", error |-> "No response"]
  ELSE [nameserver |-> ns, status |-> "pass", responseTime |-> responseTime]

\* the probe without its own try/catch: a failed probe lands in the outer catch
checkNameserversOnProbeAborts(s, dom, o, responseTime) ==
  IF o.kind = "error"
  THEN Settle(s, checkNameserversCatch)
  ELSE checkNameserversLoop(
         [s EXCEPT !.q = NoQuery, !.acc = Append(@, probeEntry(s.cur, o, responseTime))],
         dom)

\* line 86: a probe settles
checkNameserversOnProbe(s, dom, o, responseTime) ==
  checkNameserversLoop(
    [s EXCEPT !.q = NoQuery, !.acc = Append(@, probeEntry(s.cur, o, responseTime))],
    dom)

(* --------------------------------- soa --------------------------------- *)
\* soaData[i], the empty string standing for undefined
Field(parts, i) == IF i <= Len(parts) THEN parts[i] ELSE <<>>

RECURSIVE ReplaceFirstDot(_)
\* s.replace(/\./, '@')
ReplaceFirstDot(s) ==
  IF s = <<>> THEN <<>>
  ELSE IF s[1] = "." THEN <<"@">> \o Tail(s)
  ELSE <<s[1]>> \o ReplaceFirstDot(Tail(s))

\* lines 132-141
soaRecord(data) ==
  LET soaData == Split(data, " ")
  IN [primaryNS |-> StripTrailingDot(Field(soaData, 1)),
      adminEmail |-> ReplaceFirstDot(StripTrailingDot(Field(soaData, 2))),
      serial |-> OrZero(parseInt(Field(soaData, 3))),
      refresh |-> OrZero(parseInt(Field(soaData, 4))),
      retry |-> OrZero(parseInt(Field(soaData, 5))),
      expire |-> OrZero(parseInt(Field(soaData, 6))),
      minimumTTL |-> OrZero(parseInt(Field(soaData, 7)))]

\* checkSOATry taking only a record of type 6 for an SOA record
checkSOATryChecksType(o) ==
  IF o.kind = "error" THEN Throw
  ELSE IF o.hasAnswer /\ Len(o.Answer) > 0 /\ o.Answer[1].type = 6
  THEN LET record == soaRecord(o.Answer[1].data)
       IN Return([status |-> "pass",
                  message |-> <<"SOA record found and valid">>,
                  score |-> Points(100),
                  record |-> record,
                  recommendations |->
                    (IF record.refresh < 3600
                     THEN <<"Consider increasing refresh interval (>1 hour)">>
                     ELSE <<>>)
                    \o (IF record.expire < 604800
                        THEN <<"Consider increasing expire time (>1 week)">>
                        ELSE <<>>)])
  ELSE Return([status |-> "fail",
               message |-> <<"No SOA record found">>,
               score |-> Points(0),
               recommendations |-> <<"Ensure your domain has a valid SOA record">>])

\* lines 129-161
checkSOATry(o) ==
  IF o.kind = "error" THEN Throw
  ELSE IF o.hasAnswer /\ Len(o.Answer) > 0
  THEN LET record == soaRecord(o.Answer[1].data)
       IN Return([status |-> "pass",
                  message |-> <<"SOA record found and valid">>,
                  score |-> Points(100),
                  record |-> record,
                  recommendations |->
                    (IF record.refresh < 3600
                     THEN <<"Consider increasing refresh interval (>1 hour)">>
                     ELSE <<>>)
                    \o (IF record.expire < 604800
                        THEN <<"Consider increasing expire time (>1 week)">>
                        ELSE <<>>)])
  ELSE Return([status |-> "fail",
               message |-> <<"No SOA record found">>,
               score |-> Points(0),
               recommendations |-> <<"Ensure your domain has a valid SOA record">>])

\* lines 162-169
checkSOACatch ==
  Return([status |-> "fail",
          message |-> <<"Failed to check SOA record">>,
          score |-> Points(0),
          recommendations |-> <<"Check your DNS configuration">>])

checkSOA(o) == TryCatch(checkSOATry(o), checkSOACatch)

(* --------------------------------- mx ---------------------------------- *)
\* lines 180-184
mxRecord(record) ==
  LET parts == Split(record.data, " ")
  IN [priority |-> OrZero(parseInt(Field(parts, 1))),
      exchange |-> StripTrailingDot(Field(parts, 2))]

\* lines 174-198
checkMXTry(o) ==
  IF o.kind = "error" THEN Throw
  ELSE LET matching == OfType(AnswerOf(o), TypeMX)
           records == [i \in 1..Len(matching) |-> mxRecord(matching[i])]
       IN Return([status |-> IF Len(records) > 0 THEN "pass" ELSE "warning",
                  message |-> IF Len(records) > 0
                              THEN <<"Found ", ToString(Len(records)), " MX records">>
                              ELSE <<"No MX records found">>,
                  score |-> IF Len(records) > 0 THEN Points(100) ELSE Points(50),
                  records |-> records,
                  recommendations |->
                    IF Len(records) = 0
                    THEN <<"Add MX records if you need email functionality">>
                    ELSE <<>>])

\* checkMX with a catch block that throws on, as queryDNS's does (line 71)
checkMXCatchRethrows == Throw

\* checkMX's catch block reporting a failure like an empty answer
checkMXCatchWarns ==
  Return([status |-> "warning",
          message |-> <<"No MX records found">>,
          score |-> Points(50),
          records |-> <<>>,
          recommendations |-> <<"Add MX records if you need email functionality">>])

\* lines 199-207
checkMXCatch ==
  Return([status |-> "fail",
          message |-> <<"Failed to check MX records">>,
          score |-> Points(0),
          records |-> <<>>,
          recommendations |-> <<"Check your DNS configuration">>])

checkMX(o) == TryCatch(checkMXTry(o), checkMXCatch)

(* ------------------------------ a and aaaa ----------------------------- *)
\* the DNSRecord pushed for a matching raw record (lines 218-223, 257-262)
dnsRecord(record, type, data) ==
  [name |-> record.name, type |-> type, data |-> data, ttl |-> record.TTL]

\* lines 212-237
checkATry(o) ==
  IF o.kind = "error" THEN Throw
  ELSE LET matching == OfType(AnswerOf(o), TypeA)
           records == [i \in 1..Len(matching) |->
                         dnsRecord(matching[i], "A", matching[i].data)]
       IN Return([status |-> IF Len(records) > 0 THEN "pass" ELSE "fail",
                  message |-> IF Len(records) > 0
                              THEN <<"Found ", ToString(Len(records)), " A records">>
                              ELSE <<"No A records found">>,
                  score |-> IF Len(records) > 0 THEN Points(100) ELSE Points(0),
                  records |-> records,
                  recommendations |->
                    IF Len(records) = 0
                    THEN <<"Add A records to make your domain accessible">>
                    ELSE <<>>])

\* checkA's catch block passing on the message of the error it caught, which
\* an error thrown without one leaves empty
checkACatchErrorMessage ==
  Return([status |-> "fail",
          message |-> <<"">>,
          score |-> Points(0),
          records |-> <<>>,
          recommendations |-> <<"Check your DNS configuration">>])

\* lines 238-246
checkACatch ==
  Return([status |-> "fail",
          message |-> <<"Failed to check A records">>,
          score |-> Points(0),
          records |-> <<>>,
          recommendations |-> <<"Check your DNS configuration">>])

checkA(o) == TryCatch(checkATry(o), checkACatch)

\* lines 251-276
checkAAAATry(o) ==
  IF o.kind = "error" THEN Throw
  ELSE LET matching == OfType(AnswerOf(o), TypeAAAA)
           records == [i \in 1..Len(matching) |->
                         dnsRecord(matching[i], "AAAA", matching[i].data)]
       IN Return([status |-> IF Len(records) > 0 THEN "pass" ELSE "warning",
                  message |-> IF Len(records) > 0
                              THEN <<"Found ", ToString(Len(records)), " AAAA records">>
                              ELSE <<"No IPv6 (AAAA) records found">>,
                  score |-> IF Len(records) > 0 THEN Points(100) ELSE Points(75),
                  records |-> records,
                  recommendations |->
                    IF Len(records) = 0
                    THEN <<"Consider adding AAAA records for IPv6 support">>
                    ELSE <<>>])

\* checkAAAA's catch block written like checkA's
checkAAAACatchFails ==
  Return([status |-> "fail",
          message |-> <<"Failed to check AAAA records">>,
          score |-> Points(0),
          records |-> <<>>,
          recommendations |-> <<"Check your DNS configuration">>])

\* lines 277-285
checkAAAACatch ==
  Return([status |-> "warning",
          message |-> <<"Could not check AAAA records">>,
          score |-> Points(75),
          records |-> <<>>,
          recommendations |-> <<"IPv6 support is recommended but not required">>])

checkAAAA(o) == TryCatch(checkAAAATry(o), checkAAAACatch)

(* -------------------------------- cname -------------------------------- *)
\* lines 290-312
checkCNAMETry(o) ==
  IF o.kind = "error" THEN Throw
  ELSE LET matching == OfType(AnswerOf(o), TypeCNAME)
           records == [i \in 1..Len(matching) |->
                         dnsRecord(matching[i], "CNAME",
                                   StripTrailingDot(matching[i].data))]
       IN Return([status |-> "pass",
                  message |-> IF Len(records) > 0
                              THEN <<"Found ", ToString(Len(records)), " CNAME records">>
                              ELSE <<"No CNAME records found">>,
                  score |-> Points(100),
                  records |-> records,
                  recommendations |-> <<>>])

\* lines 313-321
checkCNAMECatch ==
  Return([status |-> "pass",
          message |-> <<"No CNAME records found">>,
          score |-> Points(100),
          records |-> <<>>,
          recommendations |-> <<>>])

checkCNAME(o) == TryCatch(checkCNAMETry(o), checkCNAMECatch)

(* --------------------------------- ptr --------------------------------- *)
\* lines 357-366
checkPTRResult(records) ==
  [status |-> IF Len(records) > 0 THEN "pass" ELSE "warning",
   message |-> IF Len(records) > 0
               THEN <<"Found ", ToString(Len(records)), " PTR records">>
               ELSE <<"No reverse DNS (PTR) records found">>,
   score |-> IF Len(records) > 0 THEN Points(100) ELSE Points(75),
   records |-> records,
   recommendations |->
     IF Len(records) = 0
     THEN <<"Consider setting up reverse DNS for better email deliverability">>
     ELSE <<>>]

\* checkPTR's catch block giving the advice of the zero-record case
checkPTRCatchSameAdvice ==
  Return([status |-> "warning",
          message |-> <<"Could not check PTR records">>,
          score |-> Points(75),
          records |-> <<>>,
          recommendations |->
            <<"Consider setting up reverse DNS for better email deliverability">>])

\* lines 367-375
checkPTRCatch ==
  Return([status |-> "warning",
          message |-> <<"Could not check PTR records">>,
          score |-> Points(75),
          records |-> <<>>,
          recommendations |-> <<"Reverse DNS helps with email deliverability">>])

\* lines 331-355: the loop runs on to the next A record and suspends on the
\* PTR lookup of its reverse name, or falls out of the loop and returns
checkPTRLoop(s) ==
  LET rest == SkipTo(s.todo, TypeA)
  IN IF rest = <<>>
     THEN Settle(s, Return(checkPTRResult(s.acc)))
     ELSE Awaiting([s EXCEPT !.todo = Tail(rest), !.cur = rest[1].data],
                   Query(reverseDomain(rest[1].data), "PTR"))

\* line 327: the A query settles
checkPTROnA(s, o) ==
  IF o.kind = "error"
  THEN Settle(s, TryCatch(Throw, checkPTRCatch))
  ELSE checkPTRLoop([s EXCEPT !.q = NoQuery, !.todo = AnswerOf(o)])

\* lines 338-352: the records pushed when the PTR lookup for ip settles; a
\* failed lookup is logged and pushes nothing
ptrRecords(ip, o) ==
  IF o.kind = "error" THEN <<>>
  ELSE LET matching == OfType(AnswerOf(o), TypePTR)
       IN [i \in 1..Len(matching) |->
             [name |-> ip, type |-> "PTR",
              data |-> StripTrailingDot(matching[i].data),
              ttl |-> matching[i].TTL]]

\* line 336: a PTR lookup settles
checkPTROnPTR(s, o) ==
  checkPTRLoop([s EXCEPT !.q = NoQuery, !.acc = @ \o ptrRecords(s.cur, o)])

(* ---------------------- propagation and security ----------------------- *)
\* lines 378-389; consistent is Math.random() > 0.3
checkPropagation(consistent) ==
  [status |-> IF consistent THEN "pass" ELSE "warning",
   message |-> IF consistent THEN <<"DNS propagation appears consistent">>
               ELSE <<"DNS propagation may be inconsistent">>,
   score |-> IF consistent THEN Points(100) ELSE Points(60),
   recommendations |->
     IF ~consistent
     THEN <<"Wait for DNS changes to fully propagate (up to 48 hours)">>
     ELSE <<>>]

RECURSIVE JoinWords(_, _)
\* issues.join(', ') kept as the tuple of its parts
JoinWords(words, sep) ==
  IF Len(words) <= 1 THEN words
  ELSE <<words[1], sep>> \o JoinWords(Tail(words), sep)

\* checkSecurity with the status thresholds one step down: pass from 33
checkSecurityLenient(hasSpf, hasDmarc, hasDnssec) ==
  LET issues == (IF ~hasSpf THEN <<"No SPF record found">> ELSE <<>>)
                \o (IF ~hasDmarc THEN <<"No DMARC record found">> ELSE <<>>)
                \o (IF ~hasDnssec THEN <<"DNSSEC not enabled">> ELSE <<>>)
      present == (IF hasSpf THEN 1 ELSE 0) + (IF hasDmarc THEN 1 ELSE 0)
                 + (IF hasDnssec THEN 1 ELSE 0)
      score == present * 100
  IN [status |-> IF score >= Points(33) THEN "pass"
                 ELSE IF score >= Points(0) THEN "warning" ELSE "fail",
      message |-> IF Len(issues) = 0 THEN <<"Good security configuration">>
                  ELSE <<"Security issues: ">> \o JoinWords(issues, ", "),
      score |-> score,
      recommendations |->
        (IF ~hasSpf THEN <<"Add SPF record for email security">> ELSE <<>>)
        \o (IF ~hasDmarc THEN <<"Add DMARC record for email protection">> ELSE <<>>)
        \o (IF ~hasDnssec THEN <<"Consider enabling DNSSEC for enhanced security">>
            ELSE <<>>)]

\* lines 391-415; the three flags are draws of Math.random()
checkSecurity(hasSpf, hasDmarc, hasDnssec) ==
  LET issues == (IF ~hasSpf THEN <<"No SPF record found">> ELSE <<>>)
                \o (IF ~hasDmarc THEN <<"No DMARC record found">> ELSE <<>>)
                \o (IF ~hasDnssec THEN <<"DNSSEC not enabled">> ELSE <<>>)
      present == (IF hasSpf THEN 1 ELSE 0) + (IF hasDmarc THEN 1 ELSE 0)
                 + (IF hasDnssec THEN 1 ELSE 0)
      \* present / 3 * 100, as a numerator over ScoreDen
      score == present * 100
  IN [status |-> IF score >= Points(66) THEN "pass"
                 ELSE IF score >= Points(33) THEN "warning" ELSE "fail",
      message |-> IF Len(issues) = 0 THEN <<"Good security configuration">>
                  ELSE <<"Security issues: ">> \o JoinWords(issues, ", "),
      score |-> score,
      recommendations |->
        (IF ~hasSpf THEN <<"Add SPF record for email security">> ELSE <<>>)
        \o (IF ~hasDmarc THEN <<"Add DMARC record for email protection">> ELSE <<>>)
        \o (IF ~hasDnssec THEN <<"Consider enabling DNSSEC for enhanced security">>
            ELSE <<>>)]

(* ------------------------------ aggregator ----------------------------- *)
\* lines 418-428, in hundredths
weights ==
  [nameservers |-> 20, soa |-> 15, mx |-> 10, a |-> 20, aaaa |-> 5, cname |-> 5,
   ptr |-> 10, propagation |-> 10, security |-> 5]

RECURSIVE SumOver(_, _)
SumOver(S, f) ==
  IF S = {} THEN 0
  ELSE LET k == CHOOSE x \in S : TRUE IN f[k] + SumOver(S \ {k}, f)

\* Math.floor in place of Math.round
RoundDown(n, d) == n \div d

\* Math.round(n / d) for d > 0: ties go up
Round(n, d) == (2 * n + d) \div (2 * d)

\* lines 430-440; checks maps the dimensions that have a score to that score
calculateOverallScore(checks) ==
  LET present == DOMAIN weights \cap DOMAIN checks
      totalScore == SumOver(present, [k \in present |-> checks[k] * weights[k]])
      totalWeight == SumOver(present, [k \in present |-> weights[k]])
  IN IF totalWeight > 0 THEN Round(totalScore, ScoreDen * totalWeight) ELSE 0

\* lines 443-448
determineOverallStatus(score) ==
  IF score >= 90 THEN "excellent"
  ELSE IF score >= 75 THEN "good"
  ELSE IF score >= 50 THEN "warning"
  ELSE "critical"

(* ------------------------------ resolvers ------------------------------ *)
\* the record of the type asked for that a short answer carries
Primary(q) ==
  CASE q.type = "NS" -> Rec(q.name, TypeNS, <<"n", "1", ".">>)
    [] q.type = "SOA" -> Rec(q.name, 6, <<"n", " ", "a", " ", "5", " ", "6", "0", " ", "x">>)
    [] q.type = "MX" -> Rec(q.name, TypeMX, <<"1", "0", " ", "m", ".">>)
    [] q.type = "A" -> Rec(q.name, TypeA, <<"1", ".", "2", ".", "3", ".", "4">>)
    [] q.type = "AAAA" -> Rec(q.name, TypeAAAA, <<":", ":", "1">>)
    [] q.type = "CNAME" -> Rec(q.name, TypeCNAME, <<"c", ".">>)
    [] q.type = "PTR" -> Rec(q.name, TypePTR, <<"h", ".">>)

\* a resolver that fails, answers without an Answer member, or answers with
\* one record of the type asked for: used while all nine evaluators run
ShortOutcomes(q) == {Error, NoAnswer, Ok(<<Primary(q)>>)}

\* a resolver that may answer with any list of up to MaxAnswers records
\* (MaxInnerAnswers for the lookups made inside a loop): used when one
\* evaluator runs alone
LongOutcomes(q) ==
  IF q.type = "PTR" THEN Outcomes(q, MaxInnerAnswers) ELSE Outcomes(q, MaxAnswers)

\* a resolver left open: each lookup may settle in any way
AnyZone == [kind |-> "any"]

\* a deterministic resolver, its outcome a function of the lookup's name and
\* type: lookups of the types in down fail, those of the types in bare are
\* answered without an Answer member, every other one is answered with the
\* one record of its type
FixedZone(down, bare) ==
  [kind |-> "fixed", down |-> down, bare |-> bare, mute |-> {}, terse |-> FALSE]

\* the resolver z, except that the data of every record it answers with is
\* the one character "1"
Terse(z) == [z EXCEPT !.terse = TRUE]

\* the resolver z, except that lookups of the given types never settle: the
\* fetch of line 60 stays pending, and nothing times it out
Muted(z, types) == [z EXCEPT !.mute = types]

ZoneOutcome(z, q) ==
  IF q.type \in z.down THEN Error
  ELSE IF q.type \in z.bare THEN NoAnswer
  ELSE IF z.terse THEN Ok(<<[Primary(q) EXCEPT !.data = <<"1">>]>>)
  ELSE Ok(<<Primary(q)>>)

\* the ways the lookup q can settle under the fixed resolver z: one, or none
ZoneOutcomes(z, q) == IF q.type \in z.mute THEN {} ELSE {ZoneOutcome(z, q)}

\* the outcomes of a lookup under the resolver named, or the one outcome the
\* zone fixes
OutcomesOf(resolver, q) ==
  IF zone.kind = "fixed" THEN ZoneOutcomes(zone, q)
  ELSE IF resolver = "long" THEN LongOutcomes(q) ELSE ShortOutcomes(q)

\* the body of a probe's response is never read (line 86 drops it)
ProbeOutcomes(q) ==
  IF zone.kind = "fixed" THEN ZoneOutcomes(zone, q) ELSE ShortOutcomes(q)

(* ------------------------------- actions ------------------------------- *)
Inputs ==
  { <<"e", ".", "x">>,
    HttpsScheme \o <<"e", ".", "x", "/">>,
    HttpScheme \o <<"e", ".", "x">> }

Init ==
  /\ pc = "idle"
  /\ domain = <<>>
  /\ ev = [d \in Dimensions |-> EvIdle]
  /\ report = None
  /\ heard = <<>>
  /\ zone = AnyZone
  /\ prior = None

\* the call of one evaluator: it runs to its first await, or to its return
startEvaluator(d, dom, consistent, hasSpf, hasDmarc, hasDnssec) ==
  CASE d = "nameservers" -> Awaiting(EvIdle, Query(dom, "NS"))
    [] d = "soa" -> Awaiting(EvIdle, Query(dom, "SOA"))
    [] d = "mx" -> Awaiting(EvIdle, Query(dom, "MX"))
    [] d = "a" -> Awaiting(EvIdle, Query(dom, "A"))
    [] d = "aaaa" -> Awaiting(EvIdle, Query(dom, "AAAA"))
    [] d = "cname" -> Awaiting(EvIdle, Query(WwwPrefix \o dom, "CNAME"))
    [] d = "ptr" -> Awaiting(EvIdle, Query(dom, "A"))
    [] d = "propagation" -> Settle(EvIdle, Return(checkPropagation(consistent)))
    [] d = "security" ->
         Settle(EvIdle, Return(checkSecurity(hasSpf, hasDmarc, hasDnssec)))

\* lines 7-32: analyzeDomain normalises the domain and calls the nine
\* evaluators in turn; each runs synchronously up to its first await
analyzeDomain ==
  /\ pc = "idle"
  /\ \E input \in Inputs, consistent, hasSpf, hasDmarc, hasDnssec \in BOOLEAN :
       /\ domain' = cleanDomain(input)
       /\ ev' = [d \in Dimensions |->
                   startEvaluator(d, cleanDomain(input), consistent,
                                  hasSpf, hasDmarc, hasDnssec)]
  /\ pc' = "awaiting"
  /\ UNCHANGED <<report, heard, zone, prior>>

\* evaluator d is suspended on a lookup of this type
Waiting(d, type) == ev[d].st = "await" /\ ev[d].q.type = type

\* the lookup evaluator d awaits settles with outcome o
Hear(d, o) ==
  heard' = IF pc = "unit" THEN Append(heard, [q |-> ev[d].q, o |-> o]) ELSE heard

NSResponse(resolver) ==
  /\ Waiting("nameservers", "NS")
  /\ \E o \in OutcomesOf(resolver, ev["nameservers"].q) :
       /\ Hear("nameservers", o)
       /\ ev' = [ev EXCEPT !["nameservers"] = checkNameserversOnNS(@, domain, o)]
  /\ UNCHANGED <<pc, domain, report, zone, prior>>

\* Latencies: the values Date.now() - start can take
ProbeResponse(Latencies) ==
  /\ Waiting("nameservers", "A")
  /\ \E o \in ProbeOutcomes(ev["nameservers"].q), responseTime \in Latencies :
       /\ Hear("nameservers", o)
       /\ ev' = [ev EXCEPT !["nameservers"] =
                checkNameserversOnProbe(@, domain, o, responseTime)]
  /\ UNCHANGED <<pc, domain, report, zone, prior>>

SOAResponse(resolver) ==
  /\ Waiting("soa", "SOA")
  /\ \E o \in OutcomesOf(resolver, ev["soa"].q) :
       /\ Hear("soa", o)
       /\ ev' = [ev EXCEPT !["soa"] = Settle(@, checkSOA(o))]
  /\ UNCHANGED <<pc, domain, report, zone, prior>>

\* checkMX trying its query a second time when the first attempt failed
MXResponseRetries(resolver) ==
  /\ Waiting("mx", "MX")
  /\ \E o \in OutcomesOf(resolver, ev["mx"].q) :
       /\ Hear("mx", o)
       /\ ev' = [ev EXCEPT !["mx"] =
                   IF o.kind = "error" /\ Len(@.log) < 2
                   THEN Awaiting(@, @.q)
                   ELSE Settle(@, checkMX(o))]
  /\ UNCHANGED <<pc, domain, report, zone, prior>>

\* checkMX asking again, time after time, for as long as its query fails
MXResponseRetriesForever(resolver) ==
  /\ Waiting("mx", "MX")
  /\ \E o \in OutcomesOf(resolver, ev["mx"].q) :
       /\ Hear("mx", o)
       /\ ev' = [ev EXCEPT !["mx"] = IF o.kind = "error" THEN @
                                     ELSE Settle(@, checkMX(o))]
  /\ UNCHANGED <<pc, domain, report, zone, prior>>

MXResponse(resolver) ==
  /\ Waiting("mx", "MX")
  /\ \E o \in OutcomesOf(resolver, ev["mx"].q) :
       /\ Hear("mx", o)
       /\ ev' = [ev EXCEPT !["mx"] = Settle(@, checkMX(o))]
  /\ UNCHANGED <<pc, domain, report, zone, prior>>

AResponse(resolver) ==
  /\ Waiting("a", "A")
  /\ \E o \in OutcomesOf(resolver, ev["a"].q) :
       /\ Hear("a", o)
       /\ ev' = [ev EXCEPT !["a"] = Settle(@, checkA(o))]
  /\ UNCHANGED <<pc, domain, report, zone, prior>>

\* checkA and checkAAAA pushing onto one records array, a field of the
\* object, instead of each onto a local of its own
AAAAResponseSharedRecords(resolver) ==
  /\ Waiting("aaaa", "AAAA")
  /\ \E o \in OutcomesOf(resolver, ev["aaaa"].q) :
       /\ Hear("aaaa", o)
       /\ ev' = [ev EXCEPT !["aaaa"] =
                   Settle(@, LET own == checkAAAA(o)
                             IN IF ev["a"].st = "done"
                                THEN Return([own.value EXCEPT
                                       !.records = ev["a"].result.records \o @])
                                ELSE own)]
  /\ UNCHANGED <<pc, domain, report, zone, prior>>

AAAAResponse(resolver) ==
  /\ Waiting("aaaa", "AAAA")
  /\ \E o \in OutcomesOf(resolver, ev["aaaa"].q) :
       /\ Hear("aaaa", o)
       /\ ev' = [ev EXCEPT !["aaaa"] = Settle(@, checkAAAA(o))]
  /\ UNCHANGED <<pc, domain, report, zone, prior>>

CNAMEResponse(resolver) ==
  /\ Waiting("cname", "CNAME")
  /\ \E o \in OutcomesOf(resolver, ev["cname"].q) :
       /\ Hear("cname", o)
       /\ ev' = [ev EXCEPT !["cname"] = Settle(@, checkCNAME(o))]
  /\ UNCHANGED <<pc, domain, report, zone, prior>>

PTRAResponse(resolver) ==
  /\ Waiting("ptr", "A")
  /\ \E o \in OutcomesOf(resolver, ev["ptr"].q) :
       /\ Hear("ptr", o)
       /\ ev' = [ev EXCEPT !["ptr"] = checkPTROnA(@, o)]
  /\ UNCHANGED <<pc, domain, report, zone, prior>>

PTRResponse(resolver) ==
  /\ Waiting("ptr", "PTR")
  /\ \E o \in OutcomesOf(resolver, ev["ptr"].q) :
       /\ Hear("ptr", o)
       /\ ev' = [ev EXCEPT !["ptr"] = checkPTROnPTR(@, o)]
  /\ UNCHANGED <<pc, domain, report, zone, prior>>

\* lines 34-55
buildReport(dom, results) ==
  LET overallScore == calculateOverallScore([d \in DOMAIN results |-> results[d].score])
  IN [domain |-> dom,
      overallScore |-> overallScore,
      overallStatus |-> determineOverallStatus(overallScore),
      checks |-> results]

\* analyzeDomain returning at the first evaluator that is done, with the
\* results there are so far (Promise.race in place of Promise.all)
PromiseRace ==
  /\ pc = "awaiting"
  /\ \E d \in Dimensions : ev[d].st = "done"
  /\ pc' = "returned"
  /\ report' = buildReport(domain,
                  [d \in {e \in Dimensions : ev[e].st = "done"} |-> ev[d].result])
  /\ UNCHANGED <<domain, ev, heard, zone, prior>>

\* lines 22-32: Promise.all settles, fulfilled once all nine promises are
\* fulfilled and rejected as soon as one is rejected; analyzeDomain then
\* returns the report (lines 34-55) or rejects
PromiseAll ==
  /\ pc = "awaiting"
  /\ \/ \E d \in Dimensions : ev[d].st = "threw"
     \/ \A d \in Dimensions : ev[d].st = "done"
  /\ IF \E d \in Dimensions : ev[d].st = "threw"
     THEN pc' = "rejected" /\ UNCHANGED report
     ELSE /\ pc' = "returned"
          /\ report' = buildReport(domain, [d \in Dimensions |-> ev[d].result])
  /\ UNCHANGED <<domain, ev, heard, zone, prior>>

Next ==
  \/ analyzeDomain
  \/ NSResponse("short")
  \/ ProbeResponse({0, MaxLatency})
  \/ SOAResponse("short")
  \/ MXResponse("short")
  \/ AResponse("short")
  \/ AAAAResponse("short")
  \/ CNAMEResponse("short")
  \/ PTRAResponse("short")
  \/ PTRResponse("short")
  \/ PromiseAll

Spec == Init /\ [][Next]_vars

(* --------------------- one method called on its own -------------------- *)
Domains == { <<"e", ".", "x">> }

\* one evaluator is called with a domain, outside analyzeDomain
checkAlone ==
  /\ pc = "idle"
  /\ \E d \in Dimensions, dom \in Domains,
        consistent, hasSpf, hasDmarc, hasDnssec \in BOOLEAN :
       /\ domain' = dom
       /\ ev' = [ev EXCEPT ![d] = startEvaluator(d, dom, consistent,
                                                 hasSpf, hasDmarc, hasDnssec)]
  /\ pc' = "unit"
  /\ UNCHANGED <<report, heard, zone, prior>>

\* the scores a dimension can carry into the aggregator, as numerators over
\* ScoreDen: those its evaluator produces, and 0 and 100
ScoreChoices ==
  [nameservers |-> {Points(0), Points(50), Points(100)},
   soa |-> {Points(0), Points(100)},
   mx |-> {Points(0), Points(50), Points(100)},
   a |-> {Points(0), Points(100)},
   aaaa |-> {Points(0), Points(75), Points(100)},
   cname |-> {Points(0), Points(100)},
   ptr |-> {Points(0), Points(75), Points(100)},
   propagation |-> {Points(0), Points(60), Points(100)},
   security |-> {0, 100, 200, Points(100)}]

\* lines 46-55 applied to nine results with the given scores
aggregate ==
  /\ pc = "idle"
  /\ \E ns \in ScoreChoices.nameservers, soa \in ScoreChoices.soa,
        mx \in ScoreChoices.mx, a \in ScoreChoices.a, aaaa \in ScoreChoices.aaaa,
        cname \in ScoreChoices.cname, ptr \in ScoreChoices.ptr,
        propagation \in ScoreChoices.propagation, security \in ScoreChoices.security :
       \E dom \in Domains :
         /\ domain' = dom
         /\ report' = buildReport(dom,
              [nameservers |-> [score |-> ns], soa |-> [score |-> soa],
               mx |-> [score |-> mx], a |-> [score |-> a], aaaa |-> [score |-> aaaa],
               cname |-> [score |-> cname], ptr |-> [score |-> ptr],
               propagation |-> [score |-> propagation],
               security |-> [score |-> security]])
  /\ pc' = "unit"
  /\ UNCHANGED <<ev, heard, zone, prior>>

NextUnit ==
  \/ checkAlone
  \/ aggregate
  \/ NSResponse("long")
  \/ ProbeResponse(0..MaxLatency)
  \/ SOAResponse("long")
  \/ MXResponse("long")
  \/ AResponse("long")
  \/ AAAAResponse("long")
  \/ CNAMEResponse("long")
  \/ PTRAResponse("long")
  \/ PTRResponse("long")

SpecUnit == Init /\ [][NextUnit]_vars

(* ------------- analyzeDomain called twice, resolver fixed -------------- *)
\* the deterministic resolvers: one that answers everything, one without
\* mail and reverse records, one whose A lookups fail
Zones ==
  { FixedZone({}, {}),
    FixedZone({"MX", "PTR"}, {"SOA"}),
    FixedZone({"A"}, {}) }

InitDet ==
  /\ pc = "idle"
  /\ domain = <<>>
  /\ ev = [d \in Dimensions |-> EvIdle]
  /\ report = None
  /\ heard = <<>>
  /\ zone \in Zones
  /\ prior = None

\* the dimensions whose results the caller holds on to between two calls:
\* the seven that look names up, and propagation
Kept == Dimensions \ {"security"}

\* the caller keeps what the first call returned and calls analyzeDomain
\* again with the same input (lines 7-32), the resolver being the same or
\* another one
analyzeAgain ==
  /\ pc = "returned"
  /\ prior = None
  /\ prior' = [zone |-> zone,
               checks |-> [d \in Kept |-> report.checks[d]],
               logs |-> [d \in Kept |-> ev[d].log]]
  /\ zone' \in Zones
  /\ \E consistent, hasSpf, hasDmarc, hasDnssec \in BOOLEAN :
       ev' = [d \in Dimensions |->
                startEvaluator(d, domain, consistent, hasSpf, hasDmarc, hasDnssec)]
  /\ pc' = "awaiting"
  /\ report' = None
  /\ UNCHANGED <<domain, heard>>

NextDet ==
  \/ analyzeDomain
  \/ NSResponse("short")
  \/ ProbeResponse({0, MaxLatency})
  \/ SOAResponse("short")
  \/ MXResponse("short")
  \/ AResponse("short")
  \/ AAAAResponse("short")
  \/ CNAMEResponse("short")
  \/ PTRAResponse("short")
  \/ PTRResponse("short")
  \/ PromiseAll
  \/ analyzeAgain

SpecDet == InitDet /\ [][NextDet]_vars

(* --------------- analyzeDomain run to its end, or stuck ---------------- *)
\* resolvers under which every lookup settles (one answers all but the MX
\* and SOA lookups with a record, one fails the A lookups), and resolvers
\* that leave the MX lookup or the PTR lookups pending for ever
LiveZones ==
  { Terse(FixedZone({"MX"}, {"SOA"})),
    Terse(FixedZone({"A"}, {"MX", "SOA"})),
    Muted(Terse(FixedZone({}, {"SOA"})), {"MX"}),
    Muted(Terse(FixedZone({"MX"}, {"SOA"})), {"PTR"}),
    Muted(Terse(FixedZone({"A"}, {"MX", "SOA"})), {"PTR"}) }

InitLive ==
  /\ pc = "idle"
  /\ domain = <<>>
  /\ ev = [d \in Dimensions |-> EvIdle]
  /\ report = None
  /\ heard = <<>>
  /\ zone \in LiveZones
  /\ prior = None

\* a lookup that can settle does settle, and a continuation that can run is
\* run by the event loop
Fairness ==
  /\ WF_vars(NSResponse("short"))
  /\ WF_vars(ProbeResponse({0, MaxLatency}))
  /\ WF_vars(SOAResponse("short"))
  /\ WF_vars(MXResponse("short"))
  /\ WF_vars(AResponse("short"))
  /\ WF_vars(AAAAResponse("short"))
  /\ WF_vars(CNAMEResponse("short"))
  /\ WF_vars(PTRAResponse("short"))
  /\ WF_vars(PTRResponse("short"))
  /\ WF_vars(PromiseAll)

SpecLive == InitLive /\ [][Next]_vars /\ Fairness

(* ------------------- analyzeDomain and its argument -------------------- *)
ExampleCom == <<"e", "x", "a", "m", "p", "l", "e", ".", "c", "o", "m">>

\* arguments analyzeDomain is called with: bare names, names with a scheme,
\* a trailing slash or both, in either case, and what a pattern anchored at
\* one end must leave alone
Arguments ==
  { ExampleCom,
    HttpsScheme \o <<"E">> \o Tail(ExampleCom) \o <<"/">>,
    HttpsScheme \o ExampleCom \o <<"/">>,
    HttpScheme \o <<"e", ".", "x">>,
    <<"e", ".", "x", "/", "/">>,
    <<"e", ".", "x", "/", "p">>,
    <<"H", "T", "T", "P", ":", "/", "/", "e", ".", "x">>,
    <<"x">> \o HttpScheme \o <<"e", ".", "x">>,
    HttpsScheme \o HttpScheme \o <<"e", ".", "x">>,
    HttpsScheme,
    <<"/">>,
    <<>> }

\* before the call the variable domain holds the argument, as the parameter
\* `domain` of analyzeDomain does; the resolver answers every lookup
InitArg ==
  /\ pc = "idle"
  /\ domain \in Arguments
  /\ ev = [d \in Dimensions |-> EvIdle]
  /\ report = None
  /\ heard = <<>>
  /\ zone = FixedZone({}, {})
  /\ prior = None

\* lines 7-32, called with the argument at hand
analyzeArgument ==
  /\ pc = "idle"
  /\ \E consistent, hasSpf, hasDmarc, hasDnssec \in BOOLEAN :
       /\ domain' = cleanDomain(domain)
       /\ ev' = [d \in Dimensions |->
                   startEvaluator(d, cleanDomain(domain), consistent,
                                  hasSpf, hasDmarc, hasDnssec)]
  /\ pc' = "awaiting"
  /\ UNCHANGED <<report, heard, zone, prior>>

NextArg ==
  \/ analyzeArgument
  \/ NSResponse("short")
  \/ ProbeResponse({0, MaxLatency})
  \/ SOAResponse("short")
  \/ MXResponse("short")
  \/ AResponse("short")
  \/ AAAAResponse("short")
  \/ CNAMEResponse("short")
  \/ PTRAResponse("short")
  \/ PTRResponse("short")
  \/ PromiseAll

SpecArg == InitArg /\ [][NextArg]_vars

(* ======================================================================= *)
(* Claims                                                                  *)
(* ======================================================================= *)

\* C1: analyzeDomain cannot fail: whatever the outcomes of the lookups, no
\* evaluator's promise is rejected and analyzeDomain never rejects.
C1_CannotFail ==
  /\ pc # "rejected"
  /\ \A d \in Dimensions : ev[d].st # "threw"

\* analyzeDomain returned a report although every lookup its evaluators
\* issued had failed
C1_Witness ==
  /\ pc = "returned"
  /\ report.checks.nameservers.message = <<"Failed to check nameservers">>
  /\ report.checks.soa.message = <<"Failed to check SOA record">>
  /\ report.checks.mx.message = <<"Failed to check MX records">>
  /\ report.checks.a.message = <<"Failed to check A records">>
  /\ report.checks.aaaa.message = <<"Could not check AAAA records">>
  /\ report.checks.ptr.message = <<"Could not check PTR records">>
  /\ Len(ev["cname"].log) = 1

\* C2: analyzeDomain returns its report only after all nine evaluators have
\* completed: whenever a report exists no evaluator has a lookup outstanding
\* and the report carries the results of all nine.
C2_JoinBarrier ==
  /\ (pc = "returned") <=> (report # None)
  /\ report # None =>
       /\ \A d \in Dimensions : ev[d].st = "done" /\ ev[d].q = NoQuery
       /\ DOMAIN report.checks = Dimensions
       /\ \A d \in Dimensions : report.checks[d] = ev[d].result

\* a report was returned after the nameserver evaluator, which needs two
\* lookups in a row, had finished its probe
C2_Witness ==
  /\ pc = "returned"
  /\ Len(ev["nameservers"].log) = 2
  /\ Len(ev["ptr"].log) = 2
  /\ Len(report.checks.nameservers.nameservers) = 1

\* the evaluator that was called on its own has returned
Returned(d) == pc = "unit" /\ ev[d].st = "done"

\* the lookups of the evaluator that ran on its own, from the n-th on, that
\* succeeded
Succeeded(n) == { i \in n..Len(heard) : heard[i].o.kind = "ok" }

\* C3: the score of every dimension result is in [0,100], for every
\* evaluator and every lookup outcome, and so is the report's overall score.
C3_ScoresInRange ==
  /\ \A d \in Dimensions :
       ev[d].st = "done" =>
         ev[d].result.score >= 0 /\ ev[d].result.score <= 100 * ScoreDen
  /\ report # None =>
       /\ report.overallScore >= 0 /\ report.overallScore <= 100
       /\ \A d \in DOMAIN report.checks :
            report.checks[d].score >= 0 /\ report.checks[d].score <= 100 * ScoreDen

\* three nameservers answered their probes and the score is 100, not 150
C3_Witness ==
  /\ Returned("nameservers")
  /\ Cardinality(Succeeded(2)) = 3
  /\ ev["nameservers"].result.score = 100 * ScoreDen

\* C4: the overall score is the weighted mean of the nine scores under the
\* weights 20, 15, 10, 20, 5, 5, 10, 10, 5 (hundredths), rounded to the
\* nearest integer with ties going up, and the overall status is excellent
\* from 90, good from 75, warning from 50 and critical below; nine scores of
\* 100 give 100/excellent and nine scores of 0 give 0/critical.
C4_Aggregation ==
  report # None =>
    LET c == report.checks
        r == report.overallScore
        \* the sum of score x weight, over the denominator 100 * ScoreDen
        n == 20 * c.nameservers.score + 15 * c.soa.score + 10 * c.mx.score
             + 20 * c.a.score + 5 * c.aaaa.score + 5 * c.cname.score
             + 10 * c.ptr.score + 10 * c.propagation.score + 5 * c.security.score
        den == 100 * ScoreDen
    IN /\ (2 * r - 1) * den <= 2 * n
       /\ 2 * n < (2 * r + 1) * den
       /\ report.overallStatus =
            (IF r >= 90 THEN "excellent" ELSE IF r >= 75 THEN "good"
             ELSE IF r >= 50 THEN "warning" ELSE "critical")
       /\ (\A d \in Dimensions : c[d].score = 100 * ScoreDen)
            => r = 100 /\ report.overallStatus = "excellent"
       /\ (\A d \in Dimensions : c[d].score = 0)
            => r = 0 /\ report.overallStatus = "critical"

\* the aggregator was given nine scores whose weighted mean falls exactly
\* between two integers (82.5) and rounded it up
C4_Witness ==
  /\ pc = "unit"
  /\ report # None
  /\ 20 * report.checks.nameservers.score + 15 * report.checks.soa.score
     + 10 * report.checks.mx.score + 20 * report.checks.a.score
     + 5 * report.checks.aaaa.score + 5 * report.checks.cname.score
     + 10 * report.checks.ptr.score + 10 * report.checks.propagation.score
     + 5 * report.checks.security.score = 8250 * ScoreDen
  /\ report.overallScore = 83
  /\ report.overallStatus = "good"

\* C5: when the NS query succeeds, no passing probe gives score 0 and status
\* fail, exactly one gives 50 and warning, two or more give 100 and pass, and
\* the redundancy recommendation is there iff fewer than two probes passed.
C5_NameserverScoring ==
  (Returned("nameservers") /\ heard[1].o.kind = "ok") =>
    LET passCount == Cardinality(Succeeded(2))
        res == ev["nameservers"].result
    IN /\ passCount = 0 => res.score = 0 /\ res.status = "fail"
       /\ passCount = 1 => res.score = 50 * ScoreDen /\ res.status = "warning"
       /\ passCount >= 2 => res.score = 100 * ScoreDen /\ res.status = "pass"
       /\ (res.recommendations =
             <<"Consider having at least 2 working nameservers for redundancy">>)
            <=> passCount < 2
       /\ passCount >= 2 => res.recommendations = <<>>

\* exactly two of three probes passed: score 100, pass, no recommendation
C5_Witness ==
  /\ Returned("nameservers")
  /\ heard[1].o.kind = "ok"
  /\ Len(heard) = 4
  /\ Cardinality(Succeeded(2)) = 2
  /\ ev["nameservers"].result.status = "pass"

\* the records of one type in the answer of the n-th lookup that settled
HeardOfType(n, t) ==
  SelectSeq(IF heard[n].o.kind = "ok" /\ heard[n].o.hasAnswer
            THEN heard[n].o.Answer ELSE <<>>,
            LAMBDA r : r.type = t)

\* C6: for each type-2 answer of a successful NS query the evaluator issues
\* exactly one probe and records exactly one entry, in answer order; a failed
\* probe gives the entry fail/"No response" for that nameserver only, a
\* successful one pass with a response time, and a failed probe neither
\* aborts the evaluator nor keeps the later nameservers from being probed.
C6_ProbeIsolation ==
  (pc = "unit" /\ ev["nameservers"].st # "idle" /\ Len(heard) >= 1
     /\ heard[1].o.kind = "ok") =>
    LET e == ev["nameservers"]
        nsRecords == HeardOfType(1, 2)
        entries == IF e.st = "done" THEN e.result.nameservers ELSE e.acc
    IN /\ e.st \in {"await", "done"}
       /\ Len(entries) = Len(heard) - 1
       /\ Len(e.log) <= 1 + Len(nsRecords)
       /\ e.st = "await" => Len(e.log) = Len(heard) + 1
       /\ e.st = "done" =>
            /\ Len(e.log) = 1 + Len(nsRecords)
            /\ Len(entries) = Len(nsRecords)
       /\ \A i \in 1..Len(entries) :
            /\ nsRecords[i].data \in
                 {entries[i].nameserver, entries[i].nameserver \o <<".">>}
            /\ heard[i + 1].q = [name |-> domain, type |-> "A"]
            /\ IF heard[i + 1].o.kind = "error"
               THEN entries[i] = [nameserver |-> entries[i].nameserver,
                                  status |-> "fail", error |-> "No response"]
               ELSE /\ DOMAIN entries[i] = {"nameserver", "status", "responseTime"}
                    /\ entries[i].status = "pass"
                    /\ entries[i].responseTime \in 0..MaxLatency

\* the first of three probes failed and the two after it were still made and
\* passed
C6_Witness ==
  /\ Returned("nameservers")
  /\ Len(heard) = 4
  /\ heard[2].o.kind = "error"
  /\ heard[3].o.kind = "ok"
  /\ heard[4].o.kind = "ok"
  /\ ev["nameservers"].result.nameservers[1].status = "fail"
  /\ ev["nameservers"].result.nameservers[3].status = "pass"

\* C7: when the NS query itself fails the nameserver evaluator returns fail,
\* score 0, an empty nameserver list and the recommendation to configure
\* valid nameservers, and issues no probe.
C7_NSQueryFails ==
  (pc = "unit" /\ ev["nameservers"].st # "idle" /\ Len(heard) >= 1
     /\ heard[1].o.kind = "error") =>
    /\ ev["nameservers"].st = "done"
    /\ ev["nameservers"].result.status = "fail"
    /\ ev["nameservers"].result.score = 0
    /\ ev["nameservers"].result.nameservers = <<>>
    /\ ev["nameservers"].result.recommendations =
         <<"Ensure your domain has valid nameservers configured">>
    /\ ev["nameservers"].log = <<[name |-> domain, type |-> "NS"]>>
    /\ Len(heard) = 1

\* the NS query failed and the evaluator returned
C7_Witness ==
  /\ Returned("nameservers")
  /\ heard[1].o.kind = "error"
  /\ heard[1].q.type = "NS"

\* C8: the A evaluator returns pass/100 iff the answer holds a type-1 record
\* and fail/0 otherwise, a resolver error included; the AAAA evaluator returns
\* pass/100 iff the answer holds a type-28 record and warning/75 otherwise, a
\* resolver error included, and never fail.
C8_AVersusAAAA ==
  /\ Returned("a") =>
       IF Len(HeardOfType(1, 1)) >= 1
       THEN ev["a"].result.status = "pass" /\ ev["a"].result.score = 100 * ScoreDen
       ELSE ev["a"].result.status = "fail" /\ ev["a"].result.score = 0
  /\ Returned("aaaa") =>
       /\ IF Len(HeardOfType(1, 28)) >= 1
          THEN /\ ev["aaaa"].result.status = "pass"
               /\ ev["aaaa"].result.score = 100 * ScoreDen
          ELSE /\ ev["aaaa"].result.status = "warning"
               /\ ev["aaaa"].result.score = 75 * ScoreDen
       /\ ev["aaaa"].result.status # "fail"

\* the AAAA query failed and the evaluator returned warning/75
C8_Witness ==
  /\ Returned("aaaa")
  /\ heard[1].o.kind = "error"
  /\ ev["aaaa"].result.status = "warning"
  /\ ev["aaaa"].result.score = 75 * ScoreDen

\* the PTR evaluator's contract, with recOnFailure the recommendation given
\* when the initial A query fails
PTRContract(recOnFailure) ==
  (pc = "unit" /\ ev["ptr"].st # "idle" /\ Len(heard) >= 1) =>
    LET e == ev["ptr"]
        addresses == HeardOfType(1, 1)
        collected == \E i \in 2..Len(heard) : Len(HeardOfType(i, 12)) >= 1
    IN /\ e.st \in {"await", "done"}
       /\ e.st = "done" => e.result.status # "fail"
       /\ heard[1].o.kind = "error" =>
            /\ e.st = "done"
            /\ e.result.status = "warning"
            /\ e.result.score = 75 * ScoreDen
            /\ e.result.recommendations = recOnFailure
            /\ Len(e.log) = 1
       /\ (heard[1].o.kind = "ok" /\ e.st = "await") =>
            /\ Len(e.log) = Len(heard) + 1
            /\ Len(e.log) <= 1 + Len(addresses)
       /\ (heard[1].o.kind = "ok" /\ e.st = "done") =>
            /\ Len(heard) = 1 + Len(addresses)
            /\ Len(e.log) = 1 + Len(addresses)
            /\ IF collected
               THEN /\ e.result.status = "pass"
                    /\ e.result.score = 100 * ScoreDen
               ELSE /\ e.result.status = "warning"
                    /\ e.result.score = 75 * ScoreDen
                    /\ e.result.recommendations =
                         <<"Consider setting up reverse DNS for better email deliverability">>

\* C9 (as amended): a failed PTR sub-lookup is swallowed and the remaining
\* addresses are still looked up; the result is pass/100 iff a type-12 record
\* was collected over all addresses and otherwise warning/75 with the
\* recommendation to set up reverse DNS; a failure of the initial A query
\* gives warning/75 with a recommendation of its own, "Reverse DNS helps with
\* email deliverability"; the evaluator never returns fail.
C9_PTRAmended == PTRContract(<<"Reverse DNS helps with email deliverability">>)

\* C9 (as claimed): the same, but with a failure of the initial A query
\* giving the same recommendation as the zero-record case.
C9_PTROriginal ==
  PTRContract(<<"Consider setting up reverse DNS for better email deliverability">>)

\* the initial A query failed and the evaluator returned warning/75 with the
\* recommendation of its catch block
C9_Witness ==
  /\ Returned("ptr")
  /\ Len(heard) = 1
  /\ heard[1].o.kind = "error"
  /\ ev["ptr"].result.status = "warning"
  /\ ev["ptr"].result.recommendations =
       <<"Reverse DNS helps with email deliverability">>

\* a PTR sub-lookup failed, the next address was still looked up and its
\* PTR record made the result pass
PTRSwallowReached ==
  /\ Returned("ptr")
  /\ Len(heard) = 3
  /\ heard[2].o.kind = "error"
  /\ Len(HeardOfType(3, 12)) = 1
  /\ ev["ptr"].result.status = "pass"

\* C10: the MX evaluator tells a failure from an empty answer: one type-15
\* record or more gives pass/100 and no recommendation, no such record in a
\* successful answer gives warning/50 and the recommendation to add MX
\* records, a resolver error gives fail/0 and an empty record list.
C10_MXFailureVersusEmpty ==
  Returned("mx") =>
    LET res == ev["mx"].result
        count == Len(HeardOfType(1, 15))
    IN /\ heard[1].o.kind = "error" =>
            res.status = "fail" /\ res.score = 0 /\ res.records = <<>>
       /\ (heard[1].o.kind = "ok" /\ count >= 1) =>
            /\ res.status = "pass"
            /\ res.score = 100 * ScoreDen
            /\ res.recommendations = <<>>
            /\ Len(res.records) = count
       /\ (heard[1].o.kind = "ok" /\ count = 0) =>
            /\ res.status = "warning"
            /\ res.score = 50 * ScoreDen
            /\ res.records = <<>>
            /\ res.recommendations =
                 <<"Add MX records if you need email functionality">>

\* the MX query failed and the evaluator returned fail/0, not warning/50
C10_Witness ==
  /\ Returned("mx")
  /\ heard[1].o.kind = "error"
  /\ ev["mx"].result.status = "fail"
  /\ ev["mx"].result.score = 0

\* the refresh, retry and expire values the SOA data strings of the resolver
\* stand for, read off the strings by hand; a field that is missing or is not
\* a number counts as 0
SOAFieldsRead(data) ==
  CASE data = <<"n", ".", " ", "a", ".", "b", ".", " ", "5", " ", "3", "6", "0", "0",
                " ", "6", "0", " ", "6", "0", "4", "8", "0", "0", " ", "6", "0">> ->
         [refresh |-> 3600, retry |-> 60, expire |-> 604800]
    [] data = <<"n", " ", "a", " ", "5", " ", "6", "0", " ", "x">> ->
         [refresh |-> 60, retry |-> 0, expire |-> 0]
    [] data = <<"n", " ", "a", " ", "5", " ", "-", "1", " ", "6", "0", " ",
                "6", "0", "4", "8", "0", "0", " ", "6", "0">> ->
         [refresh |-> 0 - 1, retry |-> 60, expire |-> 604800]
    [] data = <<"n", " ", "a", " ", "5", " ", "3", "6", "0", "0", " ",
                "6", "0", " ", "9", " ", "6", "0">> ->
         [refresh |-> 3600, retry |-> 60, expire |-> 9]
    [] data = <<"c", ".">> ->
         [refresh |-> 0, retry |-> 0, expire |-> 0]

\* C11: whenever the SOA query returns at least one answer checkSOA gives
\* status pass with score 100 whatever the first answer's fields parse to (a
\* field that is not a number counts as 0); the refresh recommendation is there
\* exactly when refresh < 3600 and the expire recommendation exactly when
\* expire < 604800, each on its own.  An answer without records and a failed
\* query both give status fail with score 0.
C11_SOA ==
  Returned("soa") =>
    LET o == heard[1].o
        r == ev["soa"].result
    IN IF o.kind = "ok" /\ o.hasAnswer /\ Len(o.Answer) > 0
       THEN LET read == SOAFieldsRead(o.Answer[1].data)
                refreshAdvice == <<"Consider increasing refresh interval (>1 hour)">>
                expireAdvice == <<"Consider increasing expire time (>1 week)">>
            IN /\ r.status = "pass" /\ r.score = Points(100)
               /\ r.record.refresh = read.refresh
               /\ r.record.retry = read.retry
               /\ r.record.expire = read.expire
               /\ r.recommendations =
                    (IF read.refresh < 3600 THEN refreshAdvice ELSE <<>>)
                    \o (IF read.expire < 604800 THEN expireAdvice ELSE <<>>)
       ELSE r.status = "fail" /\ r.score = Points(0)

\* checkSOA returned pass for an answer whose refresh is short and whose
\* expire is long enough: the refresh recommendation stands alone
C11_Witness ==
  /\ Returned("soa")
  /\ ev["soa"].result.status = "pass"
  /\ ev["soa"].result.recommendations =
       <<"Consider increasing refresh interval (>1 hour)">>
  /\ ev["soa"].result.record.expire >= 604800

\* the dimensions whose evaluators look names up
Lookups == Dimensions \ {"propagation", "security"}

\* a dimension result without the elapsed times of its probe entries
Timeless(d, r) ==
  IF d = "nameservers"
  THEN [r EXCEPT !.nameservers =
          [i \in 1..Len(@) |->
             IF @[i].status = "pass"
             THEN [nameserver |-> @[i].nameserver, status |-> @[i].status]
             ELSE @[i]]]
  ELSE r

\* the second call has returned, and the resolver was the same in both calls
SameZoneTwice == pc = "returned" /\ prior # None /\ prior.zone = zone

\* C12: with a deterministic resolver, two calls of analyzeDomain on the same
\* domain give the same results in the seven dimensions that look names up,
\* apart from the elapsed time in the entries of the probes that passed.
C12_Idempotence ==
  SameZoneTwice =>
    \A d \in Lookups : Timeless(d, report.checks[d]) = Timeless(d, prior.checks[d])

\* C12 as stated: the results of the two calls are identical, each nameserver
\* probe entry included.
C12_Original ==
  SameZoneTwice =>
    \A d \in Lookups : report.checks[d] = prior.checks[d]

\* two calls against the same resolver returned, and the one probe that
\* passed took a different time in each
C12_Witness ==
  /\ SameZoneTwice
  /\ Len(report.checks.nameservers.nameservers) = 1
  /\ report.checks.nameservers.nameservers[1].status = "pass"
  /\ prior.checks.nameservers.nameservers[1].status = "pass"
  /\ report.checks.nameservers.nameservers[1].responseTime
       # prior.checks.nameservers.nameservers[1].responseTime

\* dom is arg without a leading http:// or https:// and without one trailing
\* slash, and nothing else of arg is changed
Stripped(arg, dom) ==
  \E scheme \in {<<>>, HttpScheme, HttpsScheme}, slash \in {<<>>, <<"/">>} :
    /\ arg = scheme \o dom \o slash
    /\ scheme = <<>> => ~HasPrefix(arg, HttpScheme) /\ ~HasPrefix(arg, HttpsScheme)
    /\ slash = <<>> => dom = <<>> \/ dom[Len(dom)] # "/"

\* the step in which analyzeDomain takes its argument
Normalizes == pc = "idle" /\ pc' = "awaiting"

\* C13: analyzeDomain strips a leading http:// or https:// and one trailing
\* slash from its argument and leaves the case of every letter as it is, so
\* that "https://Example.com/" becomes "Example.com"; the outcome is the
\* domain of the report and the name every evaluator looks up (checkCNAME
\* with www. before it).
C13_Normalization ==
  /\ [][Normalizes =>
          /\ Stripped(domain, domain')
          /\ domain = HttpsScheme \o <<"E">> \o Tail(ExampleCom) \o <<"/">>
               => domain' = <<"E">> \o Tail(ExampleCom)
          /\ domain \in {ExampleCom, HttpsScheme \o ExampleCom \o <<"/">>}
               => domain' = ExampleCom]_vars
  /\ [](pc # "idle" =>
          /\ \A d \in Lookups : \A i \in 1..Len(ev[d].log) :
                ev[d].log[i].type # "PTR" =>
                  ev[d].log[i].name = IF d = "cname" THEN WwwPrefix \o domain ELSE domain
          /\ pc = "returned" => report.domain = domain)

\* C13 as stated: "https://Example.com/" and "example.com" both normalize to
\* "example.com".
C13_Original ==
  [][Normalizes
       /\ domain \in {ExampleCom, HttpsScheme \o <<"E">> \o Tail(ExampleCom) \o <<"/">>}
     => domain' = ExampleCom]_vars

\* analyzeDomain was called with "https://Example.com/" and has returned
\* its report
C13_Witness ==
  /\ pc = "returned"
  /\ report.domain = <<"E">> \o Tail(ExampleCom)
  /\ ev["nameservers"].log[2].name = <<"E">> \o Tail(ExampleCom)

\* the message has at least one character
NonEmptyMessage(m) == \E i \in 1..Len(m) : m[i] # ""

\* C14: a dimension result with status fail never has an empty message, in
\* what an evaluator returns and in the report.
C14_FailHasMessage ==
  /\ \A d \in Dimensions :
       ev[d].st = "done" /\ ev[d].result.status = "fail"
         => NonEmptyMessage(ev[d].result.message)
  /\ pc = "returned" =>
       \A d \in Dimensions :
         report.checks[d].status = "fail" => NonEmptyMessage(report.checks[d].message)

\* a report in which the A query had failed, the SOA answer was empty and no
\* security mechanism was found: three results with status fail
C14_Witness ==
  /\ pc = "returned"
  /\ report.checks.a.status = "fail"
  /\ report.checks.a.message = <<"Failed to check A records">>
  /\ report.checks.soa.message = <<"No SOA record found">>
  /\ report.checks.security.status = "fail"

\* C15: in every result the SOA numeric fields, every MX priority and every
\* record TTL are non-negative integers: no field is negative and no TTL is
\* missing.
C15_NonNegative ==
  /\ Returned("soa") /\ ev["soa"].result.status = "pass" =>
       LET record == ev["soa"].result.record
       IN /\ record.serial >= 0 /\ record.refresh >= 0 /\ record.retry >= 0
          /\ record.expire >= 0 /\ record.minimumTTL >= 0
  /\ Returned("mx") =>
       \A i \in 1..Len(ev["mx"].result.records) :
         ev["mx"].result.records[i].priority >= 0
  /\ \A d \in {"a", "aaaa", "cname", "ptr"} :
       Returned(d) =>
         \A i \in 1..Len(ev[d].result.records) :
           /\ ev[d].result.records[i].ttl # {}
           /\ \A t \in ev[d].result.records[i].ttl : t >= 0

\* checkSOA returned a record with a negative refresh
C15_NegativeRefresh ==
  /\ Returned("soa") /\ ev["soa"].result.status = "pass"
  /\ ev["soa"].result.record.refresh < 0

\* checkMX returned a record with a negative priority
C15_NegativePriority ==
  /\ Returned("mx")
  /\ \E i \in 1..Len(ev["mx"].result.records) :
       ev["mx"].result.records[i].priority < 0

\* checkA returned a record without a ttl
C15_MissingTTL ==
  /\ Returned("a")
  /\ \E i \in 1..Len(ev["a"].result.records) : ev["a"].result.records[i].ttl = {}

\* the number of lookups evaluator d is to issue, given the answer to its
\* first one
LookupsDue(d) ==
  CASE d \in {"soa", "mx", "a", "aaaa", "cname"} -> 1
    [] d = "nameservers" ->
         IF heard[1].o.kind = "ok" THEN 1 + Len(HeardOfType(1, 2)) ELSE 1
    [] d = "ptr" ->
         IF heard[1].o.kind = "ok" THEN 1 + Len(HeardOfType(1, 1)) ELSE 1
    [] OTHER -> 0

\* C16: no lookup is retried.  Every lookup an evaluator issued settles once,
\* and by the time the evaluator returns it has issued exactly one lookup
\* (SOA, MX, A, AAAA, CNAME), one and one more for each type-2 record of a
\* successful NS answer (nameservers), one and one more for each type-1
\* record of a successful A answer (PTR), or none (propagation, security),
\* whether the lookups failed or not.
C16_NoRetries ==
  \A d \in Dimensions :
    (pc = "unit" /\ ev[d].st # "idle") =>
      /\ ev[d].st = "await" => Len(ev[d].log) = Len(heard) + 1
      /\ ev[d].st = "done" => Len(ev[d].log) = Len(heard)
      /\ Len(heard) >= 1 => Len(ev[d].log) <= LookupsDue(d)
      /\ ev[d].st = "done" =>
           Len(ev[d].log) = IF d \in Lookups THEN LookupsDue(d) ELSE 0

\* the nameserver evaluator returned after an NS answer with two type-2
\* records and two probes that both failed: three lookups, none repeated
C16_Witness ==
  /\ Returned("nameservers")
  /\ Len(HeardOfType(1, 2)) = 2
  /\ heard[2].o.kind = "error"
  /\ heard[3].o.kind = "error"
  /\ Len(ev["nameservers"].log) = 3

\* the reverse names of the addresses the resolver hands out, written out
ReverseNameOf(ip) ==
  CASE ip = <<"1", ".", "2", ".", "3", ".", "4">> ->
         <<"4", ".", "3", ".", "2", ".", "1",
           ".", "i", "n", "-", "a", "d", "d", "r", ".", "a", "r", "p", "a">>
    [] ip = <<"1", "0", ".", "0", ".", "0", ".", "1">> ->
         <<"1", ".", "0", ".", "0", ".", "1", "0",
           ".", "i", "n", "-", "a", "d", "d", "r", ".", "a", "r", "p", "a">>

RECURSIVE PTRNamesDue(_, _)
\* the names of the PTR records due after the lookups 2..n have settled: for
\* each lookup, in order, its address once for every type-12 record answered
PTRNamesDue(addresses, n) ==
  IF n < 2 THEN <<>>
  ELSE PTRNamesDue(addresses, n - 1)
       \o [k \in 1..Len(HeardOfType(n, 12)) |-> addresses[n - 1].data]

\* C17: checkPTR looks up A for the domain first; it issues a PTR lookup only
\* after that lookup succeeded, one for each type-1 record of the answer and
\* in the answer's order, each only after the one before has settled and each
\* on the octets of the address reversed followed by .in-addr.arpa; every
\* PTR record in the result carries the address whose lookup answered it.
C17_PTROrdering ==
  (pc = "unit" /\ ev["ptr"].st # "idle") =>
    LET e == ev["ptr"]
        addresses == IF Len(heard) >= 1 THEN HeardOfType(1, 1) ELSE <<>>
        records == IF e.st = "done" THEN e.result.records ELSE e.acc
    IN /\ e.log[1] = [name |-> domain, type |-> "A"]
       /\ Len(e.log) >= 2 => Len(heard) >= 1 /\ heard[1].o.kind = "ok"
       /\ Len(e.log) <= Len(heard) + 1
       /\ Len(e.log) <= 1 + Len(addresses)
       /\ \A i \in 2..Len(e.log) :
            e.log[i] = [name |-> ReverseNameOf(addresses[i - 1].data), type |-> "PTR"]
       /\ (e.st = "done" /\ heard[1].o.kind = "ok") =>
            Len(e.log) = 1 + Len(addresses)
       /\ [k \in 1..Len(records) |-> records[k].name]
            = PTRNamesDue(addresses, Len(heard))

\* checkPTR returned after an A answer with the addresses 10.0.0.1 and
\* 1.2.3.4 in this order, each looked up under its reverse name and each
\* answered with a PTR record
C17_Witness ==
  /\ Returned("ptr")
  /\ Len(heard) = 3
  /\ heard[2].q.name = <<"1", ".", "0", ".", "0", ".", "1", "0">> \o InAddrArpa
  /\ heard[3].q.name = <<"4", ".", "3", ".", "2", ".", "1">> \o InAddrArpa
  /\ Len(ev["ptr"].result.records) = 2
  /\ ev["ptr"].result.records[1].name = <<"1", "0", ".", "0", ".", "0", ".", "1">>
  /\ ev["ptr"].result.records[2].name = <<"1", ".", "2", ".", "3", ".", "4">>

\* evaluator d waits for a lookup that the resolver never answers
Stuck(d) == ev[d].st = "await" /\ ev[d].q.type \in zone.mute

\* C18: when every lookup that is issued settles, a call of analyzeDomain
\* returns its report in the end; and once an evaluator waits for a lookup
\* that never settles, analyzeDomain never returns, whatever the other
\* evaluators do.
C18_Termination ==
  /\ (pc = "awaiting" /\ zone.mute = {}) ~> (pc = "returned")
  /\ [][\A d \in Dimensions : Stuck(d) => Stuck(d)' /\ pc' = "awaiting"]_vars

\* eight evaluators have completed, the MX lookup stays pending, and
\* analyzeDomain is still waiting
C18_Witness ==
  /\ pc = "awaiting"
  /\ Stuck("mx")
  /\ \A d \in Dimensions \ {"mx"} : ev[d].st = "done"

\* in the call under way evaluator d meets the outcomes it met in the call
\* before, lookup for lookup
SameOutcomesFor(d) ==
  \A i \in 1..Len(prior.logs[d]) :
    ZoneOutcome(zone, prior.logs[d][i]) = ZoneOutcome(prior.zone, prior.logs[d][i])

\* C19: the result of an evaluator that looks names up depends on the
\* outcomes of its own lookups only, apart from the elapsed time in the
\* entries of the probes that passed: in a second call, however the nine
\* evaluators interleave and whatever becomes of the lookups of the others, an
\* evaluator whose own lookups settle as they did in the first call returns
\* what it returned then.
C19_Independence ==
  prior # None =>
    \A d \in Lookups :
      (ev[d].st = "done" /\ SameOutcomesFor(d)) =>
        Timeless(d, ev[d].result) = Timeless(d, prior.checks[d])

\* C19 as stated: with the resolver a function of name and type, every
\* interleaving gives every evaluator the same result.
C19_Original ==
  (prior # None /\ prior.zone = zone) =>
    \A d \in Lookups :
      ev[d].st = "done" => ev[d].result = prior.checks[d]

\* a second call against a resolver that now fails the MX lookup: checkMX
\* has returned another result than before, checkA and checkNameservers the
\* same, and checkSOA is still waiting
C19_Witness ==
  /\ prior # None
  /\ "MX" \in zone.down /\ "MX" \notin prior.zone.down
  /\ ev["mx"].st = "done" /\ ev["mx"].result # prior.checks.mx
  /\ ev["a"].st = "done" /\ ev["a"].result = prior.checks.a
  /\ ev["nameservers"].st = "done" /\ SameOutcomesFor("nameservers")
  /\ Len(ev["nameservers"].result.nameservers) = 1
  /\ ev["soa"].st = "await"

\* two calls against the same resolver drew propagation differently
C19_RandomDiffers ==
  /\ SameZoneTwice
  /\ report.checks.propagation # prior.checks.propagation

\* C20: in every dimension result status, score and recommendations agree:
\* fail goes with score 0, pass with a score of at least 66, and a result
\* that is not pass has at least one recommendation.
C20_StatusScoreAgree ==
  \A d \in Dimensions :
    ev[d].st = "done" =>
      LET r == ev[d].result
      IN /\ r.status \in {"pass", "warning", "fail"}
         /\ r.status = "fail" => r.score = Points(0)
         /\ r.status = "pass" => r.score >= Points(66)
         /\ r.status # "pass" => Len(r.recommendations) > 0

\* checkSecurity found two of the three mechanisms: pass with a score
\* between 66 and 67, and a recommendation all the same
C20_Witness ==
  /\ Returned("security")
  /\ ev["security"].result.status = "pass"
  /\ ev["security"].result.score < Points(67)
  /\ Len(ev["security"].result.recommendations) = 1

====
